---- MODULE Spec2Model ----
(***************************************************************************)
(* Model of DynamicPlanning::AgentManager (agent_manager.cpp): the         *)
(* per-agent planner state machine, its input flags and its hand-off to    *)
(* the trajectory planner and to the command executor.                     *)
(*                                                                         *)
(* Every public operation is one atomic action: the agent is driven by a   *)
(* single worker (step -> plan -> publish), so calls do not overlap.       *)
(* Coordinates are exact integers; a point3d is a tuple <<x, y, z>>.       *)
(* TrajPlanner, CmdPublisher and traj_t are collaborators whose code is    *)
(* not part of the modelled sources: what they reply is an input of the    *)
(* action that calls them, drawn by the specification.                     *)
(***************************************************************************)
EXTENDS Integers, FiniteSets, Sequences, TLC

VARIABLES
    param,               \* Param: the configuration, fixed at construction
    mission,             \* mission.agents[agent.id]: start_point, desired_goal_point
    agent,               \* Agent: current_state, start_point, goals, next_waypoint
    planner_state,       \* PlannerState
    has_current_state,
    has_obstacles,
    has_local_map,
    is_disturbed,
    collision_alert,
    desired_traj,        \* traj_t: EmptyTraj or the trajectory last planned
    planner_obstacles,   \* the obstacle array held by traj_planner (setObstacles)
    last_call,           \* history: the public operation performed last
    last_update,         \* history: the most recent update of agent.current_state
    obstacle_since,      \* history: obstacleCallback since the last SUCCESS
    state_since,         \* history: state update since the last SUCCESS
    last_planned,        \* history: what the trajectory planner returned last
    last_delivered,      \* history: the array the last obstacleCallback received,
                         \* and how many (0, 1, several) wait for a plan call
    geo                  \* a call of the geometry kernel: its arguments and result

vars == <<param, mission, agent, planner_state, has_current_state, has_obstacles,
          has_local_map, is_disturbed, collision_alert, desired_traj,
          planner_obstacles, last_call, last_update, obstacle_since, state_since,
          last_planned, last_delivered, geo>>

(***************************************************************************)
(* Bounds of the model                                                     *)
(***************************************************************************)
MaxCoord == 1      \* x ranges over 0..MaxCoord
MaxHeight == 1     \* z ranges over 0..MaxHeight
MaxDt == 1         \* time_step of doStep ranges over 1..MaxDt

(***************************************************************************)
(* Values                                                                  *)
(***************************************************************************)
Points == {<<x, 0, z>> : x \in 0..MaxCoord, z \in 0..MaxHeight}

Zero3 == <<0, 0, 0>>

\* start and goal points of missions lie on the ground line z = 0
MissionPoints == {<<x, 0, 0>> : x \in 0..MaxCoord}

Moving3 == <<1, 0, 0>>

\* a state is at rest or moving (velocity and acceleration both non-zero)
States ==
    {[position |-> p, velocity |-> d, acceleration |-> d] :
        p \in Points, d \in {Zero3, Moving3}}

PlannerStates == {"WAIT", "GOTO", "PATROL", "GOBACK", "LAND"}

PlanningReports == {"WAITFORROSMSG", "SUCCESS"}

GoalModes == {"PRIORBASED", "RIGHTHANDRULE", "GRIDBASEDPLANNER"}

EmptyTraj == [empty |-> TRUE, start |-> Zero3, goal |-> Zero3]

\* the configurations: the plane height matters in 2D mode only
Params ==
    {p \in [multisim_experiment : BOOLEAN,
            world_dimension : {2, 3},
            world_z_2d : 0..MaxHeight,
            goal_threshold : {1},
            reset_threshold : {1},
            goal_mode : GoalModes] :
        p.world_dimension = 3 => p.world_z_2d = 0}

\* an obstacle array holds one obstacle, reported at pose "reported"; the
\* executor observes dynamic obstacles at pose "observed"
ObstacleArrays == [type : {"AGENT", "DYNAMICOBSTACLE"}, pose : {"reported"}]

NoObstacles == [type |-> "NONE", pose |-> "none"]

(***************************************************************************)
(* point3d helpers                                                         *)
(***************************************************************************)
Abs(n) == IF n < 0 THEN -n ELSE n

\* square of point3d::distance; distances are compared through their squares
DistanceSq(p, q) ==
    (p[1] - q[1]) * (p[1] - q[1]) + (p[2] - q[2]) * (p[2] - q[2])
        + (p[3] - q[3]) * (p[3] - q[3])

\* a.distance(b) < threshold, for threshold >= 0
DistanceLess(p, q, threshold) == DistanceSq(p, q) < threshold * threshold

SetZ(p, z) == <<p[1], p[2], z>>

\* the 2D clamp of doStep and setCurrentState
ClampZ(p) == IF param.world_dimension = 2 THEN SetZ(p, param.world_z_2d) ELSE p

(***************************************************************************)
(* History records                                                         *)
(***************************************************************************)
NoPlannerCall == [called |-> FALSE, state |-> [position |-> Zero3,
                  velocity |-> Zero3, acceleration |-> Zero3],
                  is_disturbed |-> FALSE, obstacles |-> NoObstacles,
                  pending |-> 0]

\* before the first planning: no trajectory, no alert
NeverPlanned == [planned |-> FALSE, traj |-> EmptyTraj, collision_alert |-> FALSE]

\* a default-constructed dynamic_msgs::Trajectory: prev_traj left unset
NoTrajMsg == [present |-> FALSE, agent_id |-> 0, start |-> Zero3, goal |-> Zero3]

\* no dynamic_msgs::Obstacle was returned
NoAgentMsg ==
    [id |-> 0, type |-> "NONE", position |-> Zero3, velocity |-> Zero3,
     goal |-> Zero3, collision_alert |-> FALSE, prev_traj |-> NoTrajMsg]

\* a call of a public operation that reached neither collaborator
\* (landing: what landingFinished() replied, when it was asked; executor:
\* whether the call went through cmd_publisher; pose_updated: what
\* isAgentPoseUpdated() replied, when it was asked)
Call(op) ==
    [op |-> op, arg |-> "NONE", ret |-> "NONE", landed |-> FALSE,
     landing |-> "not asked", observed |-> Zero3, planner_in |-> NoPlannerCall,
     msg |-> NoAgentMsg, executor |-> "untouched", time_step |-> 0,
     pose_updated |-> FALSE]

(***************************************************************************)
(* traj_t and TrajPlanner                                                  *)
(***************************************************************************)
Min(a, b) == IF a < b THEN a ELSE b

Sign(n) == IF n < 0 THEN -1 ELSE IF n > 0 THEN 1 ELSE 0

\* coordinate a moved t units toward b, not beyond it
Toward(a, b, t) == a + Sign(b - a) * Min(t, Abs(b - a))

\* traj_t::getStateAt: the states `traj` may evaluate to at future_time > 0;
\* an empty trajectory has no state to give and evaluates to any of `junk`
getStateAt(traj, future_time, junk) ==
    IF traj.empty THEN junk
    ELSE LET p == traj.start
             g == traj.goal
             q == <<Toward(p[1], g[1], future_time), Toward(p[2], g[2], future_time),
                    Toward(p[3], g[3], future_time)>>
             d == IF q = g THEN Zero3 ELSE Moving3
         IN  {[position |-> q, velocity |-> d, acceleration |-> d]}

\* AgentManager::getFutureStateMsg
getFutureStateMsg(future_time, junk) == getStateAt(desired_traj, future_time, junk)

\* traj_t::toTrajMsg
toTrajMsg(traj, agent_id) ==
    [present |-> TRUE, agent_id |-> agent_id, start |-> traj.start,
     goal |-> traj.goal]

\* what the planner decides on its own: whether it heads for the next
\* waypoint instead of the desired goal, and whether it raises the alert
PlannerChoices == [use_waypoint : BOOLEAN, alert : BOOLEAN]

\* TrajPlanner::plan with getCurrentGoalPosition and getCollisionAlert: the
\* result of planning `ag` under `choice`
TrajPlannerPlan(ag, disturbed, choice) ==
    LET g == IF choice.use_waypoint THEN ag.next_waypoint
             ELSE ag.desired_goal_point
    IN  [traj |-> [empty |-> FALSE, start |-> ag.current_state.position,
                   goal |-> g],
         current_goal |-> g,
         collision_alert |-> choice.alert]

(***************************************************************************)
(* AgentManager::AgentManager                                              *)
(***************************************************************************)
\* the agent_id the manager is constructed for
AgentId == 1

\* the geometry kernel is a set of free functions: no call of it is in progress
NoGeometryCall == [call |-> "none"]

\* the constructor creates cmd_publisher in multisim mode only
ExecutorCreated == param.multisim_experiment

\* what a call did to the command executor: nothing, used it, or went
\* through the null cmd_publisher
ExecutorUse(dereferenced) ==
    IF ~dereferenced THEN "untouched"
    ELSE IF ExecutorCreated THEN "used"
    ELSE "absent"

Constructed ==
    /\ param \in Params
    /\ mission = [start_point |-> <<0, 0, 0>>,
                  desired_goal_point |-> <<MaxCoord, 0, 0>>]
    /\ agent = [id |-> AgentId,
                current_state |-> [position |-> mission.start_point,
                                   velocity |-> Zero3,
                                   acceleration |-> Zero3],
                start_point |-> mission.start_point,
                desired_goal_point |-> mission.desired_goal_point,
                current_goal_point |-> mission.start_point,
                next_waypoint |-> mission.start_point]
    /\ planner_state = "WAIT"
    /\ has_current_state = FALSE
    /\ has_obstacles = FALSE
    /\ has_local_map = FALSE
    /\ is_disturbed = FALSE
    /\ collision_alert = FALSE
    /\ desired_traj = EmptyTraj
    /\ planner_obstacles = NoObstacles
    /\ last_call = Call("AgentManager")
    /\ last_update = "none"
    /\ obstacle_since = FALSE
    /\ state_since = FALSE
    /\ last_planned = NeverPlanned
    /\ last_delivered = [msg |-> NoObstacles, pending |-> 0]

Init == Constructed /\ geo = NoGeometryCall

(***************************************************************************)
(* AgentManager::doStep                                                    *)
(* `disturbed` is what cmd_publisher->isDisturbed() replies, `observed`    *)
(* what getObservedAgentPosition() replies, `ideal` the state the          *)
(* trajectory evaluates to (any of `junk` while there is no trajectory);   *)
(* the executor is asked in multisim mode only.                            *)
(***************************************************************************)
\* is_disturbed after the check of the executor
DoStepDisturbed(disturbed) ==
    IF param.multisim_experiment THEN disturbed ELSE is_disturbed

\* whether the ideal future state is applied
DoStepIdeal(disturbed) == ~(param.multisim_experiment /\ disturbed)

\* mutant: the acceleration is left as it was
DisturbedState_KeepAcceleration(observed) ==
    [position |-> observed, velocity |-> Zero3,
     acceleration |-> agent.current_state.acceleration]

\* the state doStep takes over from the command executor when disturbed
DisturbedState(observed) ==
    [position |-> observed, velocity |-> Zero3, acceleration |-> Zero3]

\* the 2D clamp applied to a state's position
ClampState(st) == [st EXCEPT !.position = ClampZ(st.position)]

\* mutant: the ideal step is taken from the current position, not from the
\* start of the trajectory
DoStepState_Advances(disturbed, observed, ideal) ==
    ClampState(IF DoStepIdeal(disturbed)
               THEN [ideal EXCEPT
                        !.position =
                           <<agent.current_state.position[1]
                                + ideal.position[1] - desired_traj.start[1],
                             agent.current_state.position[2]
                                + ideal.position[2] - desired_traj.start[2],
                             agent.current_state.position[3]
                                + ideal.position[3] - desired_traj.start[3]>>]
               ELSE DisturbedState(observed))

\* agent.current_state after doStep
DoStepState(disturbed, observed, ideal) ==
    ClampState(IF DoStepIdeal(disturbed) THEN ideal ELSE DisturbedState(observed))

doStep(time_step, disturbed, observed, junk) ==
    /\ is_disturbed' = DoStepDisturbed(disturbed)
    /\ \E ideal \in (IF DoStepIdeal(disturbed)
                     THEN getFutureStateMsg(time_step, junk)
                     ELSE {DisturbedState(observed)}) :
          agent' = [agent EXCEPT !.current_state =
                                     DoStepState(disturbed, observed, ideal)]
    /\ has_current_state' = TRUE
    /\ last_call' = [Call("doStep") EXCEPT
                        !.observed = IF DoStepIdeal(disturbed) THEN Zero3
                                     ELSE observed,
                        !.time_step = time_step,
                        !.executor = ExecutorUse(param.multisim_experiment)]
    /\ last_update' = IF DoStepIdeal(disturbed) THEN "ideal" ELSE "disturbed"
    /\ state_since' = TRUE
    /\ UNCHANGED <<param, mission, planner_state, has_obstacles, has_local_map,
                   collision_alert, desired_traj, planner_obstacles,
                   obstacle_since, last_planned, last_delivered, geo>>

(***************************************************************************)
(* AgentManager::planningStateTransition                                   *)
(***************************************************************************)
\* mutant: GOTO keeps the previous desired goal, as WAIT does
planningStateTransition_GotoKeepsGoal(ag) ==
    IF /\ planner_state = "PATROL"
       /\ DistanceLess(ag.desired_goal_point, ag.current_state.position,
                       param.goal_threshold)
    THEN [ag EXCEPT !.desired_goal_point = ag.start_point,
                    !.start_point = ag.desired_goal_point]
    ELSE IF planner_state = "GOBACK"
    THEN [ag EXCEPT !.desired_goal_point = mission.start_point]
    ELSE ag

\* mutant: PATROL swaps at a distance equal to the threshold too
planningStateTransition_SwapAtThreshold(ag) ==
    IF planner_state = "GOTO"
    THEN [ag EXCEPT !.desired_goal_point = mission.desired_goal_point]
    ELSE IF /\ planner_state = "PATROL"
            /\ DistanceSq(ag.desired_goal_point, ag.current_state.position)
                   <= param.goal_threshold * param.goal_threshold
    THEN [ag EXCEPT !.desired_goal_point = ag.start_point,
                    !.start_point = ag.desired_goal_point]
    ELSE IF planner_state = "GOBACK"
    THEN [ag EXCEPT !.desired_goal_point = mission.start_point]
    ELSE ag

\* mutant: GOBACK heads for the agent's own start_point, which PATROL swaps
planningStateTransition_GobackToAgentStart(ag) ==
    IF planner_state = "GOTO"
    THEN [ag EXCEPT !.desired_goal_point = mission.desired_goal_point]
    ELSE IF /\ planner_state = "PATROL"
            /\ DistanceLess(ag.desired_goal_point, ag.current_state.position,
                            param.goal_threshold)
    THEN [ag EXCEPT !.desired_goal_point = ag.start_point,
                    !.start_point = ag.desired_goal_point]
    ELSE IF planner_state = "GOBACK"
    THEN [ag EXCEPT !.desired_goal_point = ag.start_point]
    ELSE ag

planningStateTransition(ag) ==
    IF planner_state = "GOTO"
    THEN [ag EXCEPT !.desired_goal_point = mission.desired_goal_point]
    ELSE IF /\ planner_state = "PATROL"
            /\ DistanceLess(ag.desired_goal_point, ag.current_state.position,
                            param.goal_threshold)
    THEN [ag EXCEPT !.desired_goal_point = ag.start_point,
                    !.start_point = ag.desired_goal_point]
    ELSE IF planner_state = "GOBACK"
    THEN [ag EXCEPT !.desired_goal_point = mission.start_point]
    ELSE ag

(***************************************************************************)
(* AgentManager::plan                                                      *)
(* `choice` is what the trajectory planner decides when it is called.      *)
(***************************************************************************)
\* mutant: the input check asks for one of the two inputs only
PlanInputsMissing_BothAbsent == ~has_obstacles /\ ~has_current_state

\* the input check
PlanInputsMissing == ~has_obstacles \/ ~has_current_state

\* mutant: the landing branch tests the wrong planner state
PlanHandsOffLanding_WrongState ==
    param.multisim_experiment /\ planner_state = "GOBACK"

\* the branch that calls cmd_publisher->landingCallback() instead of planning
PlanHandsOffLanding == param.multisim_experiment /\ planner_state = "LAND"

\* the is_disturbed argument of traj_planner->plan
PlanDisturbedArg == is_disturbed

\* mutant: a plan call that has to wait drops the input that did arrive
PlanFlagsWaiting_DropInputs ==
    [has_obstacles |-> FALSE, has_current_state |-> FALSE]

\* has_obstacles and has_current_state after a plan call that returned at
\* the input check
PlanFlagsWaiting ==
    [has_obstacles |-> has_obstacles, has_current_state |-> has_current_state]

\* collision_alert after a plan call that planned
PlanAlertAfter(out) == out.collision_alert

\* desired_traj after a plan call that planned
PlanTrajAfter(out) == out.traj

\* mutant: the obstacle flag is not re-initialised
PlanFlagsAfter_KeepObstacles ==
    [has_obstacles |-> has_obstacles, has_current_state |-> FALSE]

\* mutant: the state flag is not re-initialised
PlanFlagsAfter_KeepState ==
    [has_obstacles |-> FALSE, has_current_state |-> has_current_state]

\* has_obstacles and has_current_state after a plan call that proceeded
PlanFlagsAfter == [has_obstacles |-> FALSE, has_current_state |-> FALSE]

plan(choice) ==
    /\ UNCHANGED <<param, mission, planner_state, has_local_map, is_disturbed,
                   planner_obstacles, last_update, geo>>
    /\ IF PlanInputsMissing
       THEN /\ last_call' = [Call("plan") EXCEPT !.ret = "WAITFORROSMSG"]
            /\ has_obstacles' = PlanFlagsWaiting.has_obstacles
            /\ has_current_state' = PlanFlagsWaiting.has_current_state
            /\ UNCHANGED <<agent, collision_alert, desired_traj, obstacle_since,
                           state_since, last_planned, last_delivered>>
       ELSE /\ IF PlanHandsOffLanding
               THEN /\ last_call' = [Call("plan") EXCEPT
                                       !.ret = "SUCCESS",
                                       !.landed = TRUE,
                                       !.executor = ExecutorUse(TRUE)]
                    /\ UNCHANGED <<agent, collision_alert, desired_traj,
                                   last_planned>>
               ELSE LET ag == planningStateTransition(agent)
                        out == TrajPlannerPlan(ag, PlanDisturbedArg, choice)
                    IN  /\ desired_traj' = PlanTrajAfter(out)
                        /\ agent' = [ag EXCEPT !.current_goal_point =
                                                   out.current_goal]
                        /\ collision_alert' = PlanAlertAfter(out)
                        /\ last_planned' =
                              [planned |-> TRUE, traj |-> out.traj,
                               collision_alert |-> out.collision_alert]
                        /\ last_call' =
                              [Call("plan") EXCEPT
                                  !.ret = "SUCCESS",
                                  !.executor =
                                     ExecutorUse(param.multisim_experiment),
                                  !.planner_in =
                                     [called |-> TRUE,
                                      state |-> ag.current_state,
                                      is_disturbed |-> PlanDisturbedArg,
                                      obstacles |-> planner_obstacles,
                                      pending |-> last_delivered.pending]]
            /\ has_obstacles' = PlanFlagsAfter.has_obstacles
            /\ has_current_state' = PlanFlagsAfter.has_current_state
            /\ obstacle_since' = FALSE
            /\ state_since' = FALSE
            /\ last_delivered' = [last_delivered EXCEPT !.pending = 0]

(***************************************************************************)
(* AgentManager::obstacleCallback                                          *)
(* `pose_updated` is what cmd_publisher->isObsPoseUpdated() replies.       *)
(***************************************************************************)
\* mutant: once the planner holds an array, later ones are dropped
ObstaclesSeen_KeepFirst(msg_obstacles, pose_updated) ==
    IF planner_obstacles # NoObstacles THEN planner_obstacles
    ELSE IF /\ param.multisim_experiment
            /\ msg_obstacles.type = "DYNAMICOBSTACLE"
            /\ pose_updated
    THEN [msg_obstacles EXCEPT !.pose = "observed"]
    ELSE msg_obstacles

\* the array handed to setObstacles: with the executor coupled, a dynamic
\* obstacle whose pose the executor has observed takes the observed pose
ObstaclesSeen(msg_obstacles, pose_updated) ==
    IF /\ param.multisim_experiment
       /\ msg_obstacles.type = "DYNAMICOBSTACLE"
       /\ pose_updated
    THEN [msg_obstacles EXCEPT !.pose = "observed"]
    ELSE msg_obstacles

\* has_obstacles after obstacleCallback
ObstacleFlagAfter == TRUE

obstacleCallback(msg_obstacles, pose_updated) ==
    /\ planner_obstacles' = ObstaclesSeen(msg_obstacles, pose_updated)
    /\ has_obstacles' = ObstacleFlagAfter
    /\ last_call' = [Call("obstacleCallback") EXCEPT
                        !.executor =
                           ExecutorUse(/\ param.multisim_experiment
                                       /\ msg_obstacles.type = "DYNAMICOBSTACLE")]
    /\ obstacle_since' = TRUE
    /\ last_delivered' = [msg |-> msg_obstacles,
                          pending |-> IF has_obstacles THEN 2 ELSE 1]
    /\ UNCHANGED <<param, mission, agent, planner_state, has_current_state,
                   has_local_map, is_disturbed, collision_alert, desired_traj,
                   last_update, state_since, last_planned, geo>>

(***************************************************************************)
(* AgentManager::setCurrentState                                           *)
(***************************************************************************)
\* mutant: the 2D clamp is missing
SetCurrentStateState_NoClamp(msg_current_state) == msg_current_state

\* agent.current_state after setCurrentState
SetCurrentStateState(msg_current_state) == ClampState(msg_current_state)

setCurrentState(msg_current_state) ==
    /\ agent' = [agent EXCEPT !.current_state =
                                  SetCurrentStateState(msg_current_state)]
    /\ has_current_state' = TRUE
    /\ last_call' = Call("setCurrentState")
    /\ last_update' = "msg"
    /\ state_since' = TRUE
    /\ UNCHANGED <<param, mission, planner_state, has_obstacles, has_local_map,
                   is_disturbed, collision_alert, desired_traj, planner_obstacles,
                   obstacle_since, last_planned, last_delivered, geo>>

(***************************************************************************)
(* AgentManager::setPlannerState                                           *)
(* `finished` is what cmd_publisher->landingFinished() replies.            *)
(***************************************************************************)
\* whether landingFinished() is asked at all (the condition short-circuits)
LandingAsked == param.multisim_experiment /\ planner_state = "LAND"

\* mutant: LAND refuses commands without the executor too
SetPlannerStateIgnored_AnyLanding(finished) == planner_state = "LAND" /\ ~finished

\* mutant: the early return does not ask whether landing has finished
SetPlannerStateIgnored_NoFinishCheck(finished) == LandingAsked

\* the early return
SetPlannerStateIgnored(finished) == LandingAsked /\ ~finished

setPlannerState(new_planner_state, finished) ==
    /\ planner_state' = IF SetPlannerStateIgnored(finished)
                        THEN planner_state
                        ELSE new_planner_state
    /\ last_call' = [Call("setPlannerState") EXCEPT
                        !.arg = new_planner_state,
                        !.executor = ExecutorUse(LandingAsked),
                        !.landing = IF ~LandingAsked THEN "not asked"
                                    ELSE IF finished THEN "finished"
                                    ELSE "in progress"]
    /\ UNCHANGED <<param, mission, agent, has_current_state, has_obstacles,
                   has_local_map, is_disturbed, collision_alert, desired_traj,
                   planner_obstacles, last_update, obstacle_since, state_since,
                   last_planned, last_delivered, geo>>

(***************************************************************************)
(* AgentManager::setStartPosition, AgentManager::setDesiredGoal            *)
(***************************************************************************)
setStartPosition(start_position) ==
    /\ mission' = [mission EXCEPT !.start_point = start_position]
    /\ agent' = [agent EXCEPT !.start_point = start_position]
    /\ last_call' = Call("setStartPosition")
    /\ UNCHANGED <<param, planner_state, has_current_state, has_obstacles,
                   has_local_map, is_disturbed, collision_alert, desired_traj,
                   planner_obstacles, last_update, obstacle_since, state_since,
                   last_planned, last_delivered, geo>>

setDesiredGoal(new_desired_goal_position) ==
    /\ mission' = [mission EXCEPT !.desired_goal_point = new_desired_goal_position]
    /\ agent' = [agent EXCEPT !.desired_goal_point = new_desired_goal_position]
    /\ last_call' = Call("setDesiredGoal")
    /\ UNCHANGED <<param, planner_state, has_current_state, has_obstacles,
                   has_local_map, is_disturbed, collision_alert, desired_traj,
                   planner_obstacles, last_update, obstacle_since, state_since,
                   last_planned, last_delivered, geo>>

(***************************************************************************)
(* AgentManager::getAgentMsg                                               *)
(***************************************************************************)
\* mutant: the goal field is the desired goal in every goal mode
AgentMsgGoal_AlwaysDesired == agent.desired_goal_point

\* the goal field of the message
AgentMsgGoal ==
    IF param.goal_mode = "GRIDBASEDPLANNER" THEN agent.current_goal_point
    ELSE agent.desired_goal_point

\* the prev_traj field of the message
AgentMsgPrevTraj ==
    IF ~desired_traj.empty THEN toTrajMsg(desired_traj, agent.id) ELSE NoTrajMsg

\* the message (radius, downwash and max_acc are constants of the agent)
AgentMsg ==
    [id |-> agent.id,
     type |-> "AGENT",
     position |-> agent.current_state.position,
     velocity |-> agent.current_state.velocity,
     goal |-> AgentMsgGoal,
     collision_alert |-> collision_alert,
     prev_traj |-> AgentMsgPrevTraj]

getAgentMsg ==
    /\ last_call' = [Call("getAgentMsg") EXCEPT !.msg = AgentMsg]
    /\ UNCHANGED <<param, mission, agent, planner_state, has_current_state,
                   has_obstacles, has_local_map, is_disturbed, collision_alert,
                   desired_traj, planner_obstacles, last_update, obstacle_since,
                   state_since, last_planned, last_delivered, geo>>

(***************************************************************************)
(* The getters that read a field of the manager: getCurrentPosition,       *)
(* getCurrentStateMsg, getTraj, getDesiredGoalPoint, getNextWaypoint,      *)
(* getStartPoint                                                           *)
(***************************************************************************)
FieldGetters ==
    {"getCurrentPosition", "getCurrentStateMsg", "getTraj",
     "getDesiredGoalPoint", "getNextWaypoint", "getStartPoint"}

getField(getter) ==
    /\ last_call' = Call(getter)
    /\ UNCHANGED <<param, mission, agent, planner_state, has_current_state,
                   has_obstacles, has_local_map, is_disturbed, collision_alert,
                   desired_traj, planner_obstacles, last_update, obstacle_since,
                   state_since, last_planned, last_delivered, geo>>

(***************************************************************************)
(* AgentManager::getObservedAgentPosition, getObservedObsPosition          *)
(* Both call through cmd_publisher without asking whether it was created;  *)
(* through a null cmd_publisher the call aborts or returns any point.      *)
(* `observed` is the point returned, `aborted` whether the call aborted.   *)
(***************************************************************************)
ObservedGetters == {"getObservedAgentPosition", "getObservedObsPosition"}

getObserved(getter, observed, aborted) ==
    /\ aborted => ~ExecutorCreated
    /\ last_call' = [Call(getter) EXCEPT
                        !.executor = ExecutorUse(TRUE),
                        !.ret = IF aborted THEN "ABORTED" ELSE "NONE",
                        !.observed = IF aborted THEN Zero3 ELSE observed]
    /\ UNCHANGED <<param, mission, agent, planner_state, has_current_state,
                   has_obstacles, has_local_map, is_disturbed, collision_alert,
                   desired_traj, planner_obstacles, last_update, obstacle_since,
                   state_since, last_planned, last_delivered, geo>>

(***************************************************************************)
(* AgentManager::isInitialStateValid                                       *)
(* `pose_updated` is what cmd_publisher->isAgentPoseUpdated() replies,     *)
(* `observed` what getObservedAgentPosition() replies.                     *)
(***************************************************************************)
\* whether the executor is asked for the pose at all (the condition
\* short-circuits)
PoseAsked == param.multisim_experiment

\* is_valid
InitialStateValid(pose_updated, observed) ==
    IF param.multisim_experiment /\ pose_updated
    THEN DistanceLess(observed, agent.current_state.position,
                      param.reset_threshold)
    ELSE TRUE

isInitialStateValid(pose_updated, observed) ==
    /\ last_call' = [Call("isInitialStateValid") EXCEPT
                        !.ret = IF InitialStateValid(pose_updated, observed)
                                THEN "VALID" ELSE "INVALID",
                        !.executor = ExecutorUse(PoseAsked),
                        !.pose_updated = pose_updated,
                        !.observed = observed]
    /\ UNCHANGED <<param, mission, agent, planner_state, has_current_state,
                   has_obstacles, has_local_map, is_disturbed, collision_alert,
                   desired_traj, planner_obstacles, last_update, obstacle_since,
                   state_since, last_planned, last_delivered, geo>>

(***************************************************************************)
(* The agent driven by its node: any public operation in any order, its    *)
(* inputs and the collaborators' replies drawn from `env`.                 *)
(***************************************************************************)
\* the planner-state command, the input callbacks and the plan step
\* (a reply is drawn only where the operation asks for it)
NextInputs(env) ==
    \/ \E time_step \in 1..MaxDt :
          \/ doStep(time_step, FALSE, Zero3, env.states)
          \/ /\ param.multisim_experiment
             /\ \E observed \in env.observed :
                   doStep(time_step, TRUE, observed, env.states)
    \/ \E choice \in (IF PlanInputsMissing \/ PlanHandsOffLanding
                      THEN {CHOOSE c \in env.choices : TRUE}
                      ELSE env.choices) :
          plan(choice)
    \/ \E msg \in env.obstacles :
          \E pose_updated \in (IF /\ param.multisim_experiment
                                  /\ msg.type = "DYNAMICOBSTACLE"
                               THEN BOOLEAN ELSE {FALSE}) :
             obstacleCallback(msg, pose_updated)
    \/ \E msg \in env.states : setCurrentState(msg)
    \/ \E s \in PlannerStates :
          \E finished \in (IF LandingAsked THEN BOOLEAN ELSE {FALSE}) :
             setPlannerState(s, finished)

\* ... and the commands that move the mission's start and goal
NextOver(env) ==
    \/ NextInputs(env)
    \/ \E p \in env.starts : setStartPosition(p)
    \/ \E p \in env.goals : setDesiredGoal(p)

(***************************************************************************)
(* Spec: the input flags, the planner state and the landing hand-off, in   *)
(* 3D mode, with every obstacle message and planner decision; positions    *)
(* come from the trajectory, and the goal command repeats the mission's.   *)
(***************************************************************************)
GroundStates ==
    {st \in States : st.position \in MissionPoints /\ st.velocity = Zero3}

FlowEnv ==
    [observed |-> {<<0, 0, 0>>},
     choices |-> PlannerChoices,
     obstacles |-> ObstacleArrays,
     states |-> {st \in GroundStates : st.position = <<0, 0, 0>>},
     starts |-> {<<0, 0, 0>>},
     goals |-> {<<MaxCoord, 0, 0>>}]

InitFlow ==
    Init /\ param.world_dimension = 3 /\ param.goal_mode = "PRIORBASED"

Next == NextOver(FlowEnv)

Spec == InitFlow /\ [][Next]_vars

(***************************************************************************)
(* SpecGoals: the goal arbitration of the planner state machine, in 3D     *)
(* mode on the ground line, with every start and goal command.             *)
(***************************************************************************)
GoalsEnv ==
    [observed |-> MissionPoints,
     choices |-> {c \in PlannerChoices : ~c.alert},
     obstacles |-> {m \in ObstacleArrays : m.type = "AGENT"},
     states |-> GroundStates,
     starts |-> MissionPoints,
     goals |-> MissionPoints]

NextGoals == NextOver(GoalsEnv)

SpecGoals == InitFlow /\ [][NextGoals]_vars

(***************************************************************************)
(* SpecState: the agent's current state in 2D and 3D mode, with every      *)
(* observed position and state messages at every height.                   *)
(***************************************************************************)
StateEnv ==
    [observed |-> Points,
     choices |-> {c \in PlannerChoices : ~c.alert /\ ~c.use_waypoint},
     obstacles |-> {m \in ObstacleArrays : m.type = "AGENT"},
     states |-> {st \in States : st.position[1] = 0},
     starts |-> {<<0, 0, 0>>},
     goals |-> {<<MaxCoord, 0, 0>>}]

InitState == Init /\ param.goal_mode = "PRIORBASED"

NextState == NextOver(StateEnv)

SpecState == InitState /\ [][NextState]_vars

(***************************************************************************)
(* SpecNode: the manager as its node uses it, getters included, in 3D mode *)
(* in every goal mode, with one state message and one obstacle message.    *)
(***************************************************************************)
NodeEnv ==
    [observed |-> {<<0, 0, 0>>},
     choices |-> PlannerChoices,
     obstacles |-> {m \in ObstacleArrays : m.type = "AGENT"},
     states |-> {st \in GroundStates : st.position = <<0, 0, 0>>},
     starts |-> {<<0, 0, 0>>},
     goals |-> {<<MaxCoord, 0, 0>>}]

InitNode == Init /\ param.world_dimension = 3

NextNode ==
    \/ NextOver(NodeEnv)
    \/ getAgentMsg
    \/ \E getter \in FieldGetters : getField(getter)

SpecNode == InitNode /\ [][NextNode]_vars

(***************************************************************************)
(* SpecExecutor: the operations that reach for the command executor, with  *)
(* and without it, in 3D mode, with observed positions on the ground line. *)
(***************************************************************************)
ExecutorEnv ==
    [observed |-> MissionPoints,
     choices |-> {c \in PlannerChoices : ~c.alert /\ ~c.use_waypoint},
     obstacles |-> ObstacleArrays,
     states |-> {st \in GroundStates : st.position = <<0, 0, 0>>},
     starts |-> {<<0, 0, 0>>},
     goals |-> {<<MaxCoord, 0, 0>>}]

\* (a reply is drawn only where the operation asks for it)
NextExecutor ==
    \/ NextInputs(ExecutorEnv)
    \/ \E getter \in ObservedGetters :
          \/ getObserved(getter, Zero3, FALSE)
          \/ getObserved(getter, Zero3, TRUE)
    \/ \E pose_updated \in (IF PoseAsked THEN BOOLEAN ELSE {FALSE}) :
          \E observed \in (IF PoseAsked /\ pose_updated
                            THEN ExecutorEnv.observed ELSE {Zero3}) :
             isInitialStateValid(pose_updated, observed)

SpecExecutor == InitFlow /\ [][NextExecutor]_vars

(***************************************************************************)
(* SpecPatrol: as SpecGoals, but the mission's start and goal are never    *)
(* moved.                                                                  *)
(***************************************************************************)
NextPatrol == NextInputs(GoalsEnv)

SpecPatrol == InitFlow /\ [][NextPatrol]_vars

(***************************************************************************)
(* The geometry kernel (geometry.hpp).  Arguments are points with integer  *)
(* coordinates; results are exact: a point is n/d for an integer vector n  *)
(* and a denominator d > 0, a length is carried as its square n/d, and     *)
(* lengths are compared through their squares.  A direction v / |v| is     *)
(* carried as v: a projection on it is a parameter along v.                *)
(***************************************************************************)
MaxGeo == 3        \* x of an end of a segment ranges over 0..MaxGeo
MaxRadius == 2     \* collision_radius ranges over 1..MaxRadius
MaxHorizon == 2    \* time_horizon ranges over 1..MaxHorizon

\* the ends of the segments
GeoPoints == {<<x, y, z>> : x \in 0..MaxGeo, y \in {0, 1}, z \in {0, 1}}

\* the points, ray starts and ends of the paths
CubePoints == {<<x, y, z>> : x \in {0, 1}, y \in {0, 1}, z \in {0, 1}}

\* the unit vectors with integer coordinates
UnitDirections ==
    {<<1, 0, 0>>, <<-1, 0, 0>>, <<0, 1, 0>>, <<0, -1, 0>>, <<0, 0, 1>>,
     <<0, 0, -1>>}

\* struct Line
Line(start_point, end_point) ==
    [start_point |-> start_point, end_point |-> end_point]

GeoLines == {Line(p, q) : p \in GeoPoints, q \in GeoPoints}

CubeLines == {Line(p, q) : p \in CubePoints, q \in CubePoints}

Add3(p, q) == <<p[1] + q[1], p[2] + q[2], p[3] + q[3]>>

Sub3(p, q) == <<p[1] - q[1], p[2] - q[2], p[3] - q[3]>>

Scale3(p, k) == <<p[1] * k, p[2] * k, p[3] * k>>

Dot3(p, q) == p[1] * q[1] + p[2] * q[2] + p[3] * q[3]

Cross3(p, q) ==
    <<p[2] * q[3] - p[3] * q[2], p[3] * q[1] - p[1] * q[3],
      p[1] * q[2] - p[2] * q[1]>>

\* the square of norm()
NormSq(p) == Dot3(p, p)

RECURSIVE GCD(_, _)
GCD(k, m) == IF m = 0 THEN k ELSE GCD(m, k % m)

\* the fraction n/d, d > 0, in lowest terms
Frac(n, d) == LET g == GCD(Abs(n), d) IN [n |-> n \div g, d |-> d \div g]

FracLess(a, b) == a.n * b.d < b.n * a.d

FracEq(a, b) == a.n * b.d = b.n * a.d

FracLeq(a, b) == a.n * b.d <= b.n * a.d

FracAdd(a, b) == Frac(a.n * b.d + b.n * a.d, a.d * b.d)

FracSub(a, b) == Frac(a.n * b.d - b.n * a.d, a.d * b.d)

FracMul(a, b) == Frac(a.n * b.n, a.d * b.d)

\* sqrt of a fraction in lowest terms, where it is a fraction
IsSquare(n) == \E i \in 0..n : i * i = n

Root(n) == CHOOSE i \in 0..n : i * i = n

FracIsSquare(a) == IsSquare(a.n) /\ IsSquare(a.d)

FracRoot(a) == Frac(Root(a.n), Root(a.d))

\* the double k - sqrt(u) - s * sqrt(w), for fractions k, u, w and a sign s
Surd(k, u, s, w) == [k |-> k, u |-> u, s |-> s, w |-> w]

ZeroSurd == Surd(Frac(0, 1), Frac(0, 1), 1, Frac(0, 1))

\* x * t for an integer t > 0
SurdTimes(x, t) ==
    Surd(FracMul(x.k, Frac(t, 1)), FracMul(x.u, Frac(t * t, 1)), x.s,
         FracMul(x.w, Frac(t * t, 1)))

\* the same number with every root that is a fraction taken: k - sqrt(u),
\* with u = 0 or u not the square of a fraction, where one root remains
SurdValue(x) ==
    LET k1 == IF FracIsSquare(x.u) THEN FracSub(x.k, FracRoot(x.u)) ELSE x.k
        u1 == IF FracIsSquare(x.u) THEN Frac(0, 1) ELSE x.u
        k2 == IF ~FracIsSquare(x.w) THEN k1
              ELSE IF x.s = 1 THEN FracSub(k1, FracRoot(x.w))
              ELSE FracAdd(k1, FracRoot(x.w))
        w2 == IF FracIsSquare(x.w) THEN Frac(0, 1) ELSE x.w
    IN  IF w2.n = 0 THEN Surd(k2, u1, 1, w2)
        ELSE IF u1.n = 0 /\ x.s = 1 THEN Surd(k2, w2, 1, u1)
        ELSE Surd(k2, u1, x.s, w2)

\* the point n/d, d > 0, in lowest terms
RPoint(n, d) ==
    LET g == GCD(GCD(GCD(Abs(n[1]), Abs(n[2])), Abs(n[3])), d)
    IN  [n |-> <<n[1] \div g, n[2] \div g, n[3] \div g>>, d |-> d \div g]

Exact(p) == RPoint(p, 1)

RPointEq(p, q) == Scale3(p.n, q.d) = Scale3(q.n, p.d)

RSub(p, q) == RPoint(Sub3(Scale3(p.n, q.d), Scale3(q.n, p.d)), p.d * q.d)

RNormSq(p) == Frac(NormSq(p.n), p.d * p.d)

\* the square of p.distance(q)
RDistanceSq(p, q) == RNormSq(RSub(p, q))

\* start + v * t for a fraction t
PointAt(start, v, t) == RPoint(Add3(Scale3(start, t.d), Scale3(v, t.n)), t.d)

\* (p - start).dot(v / |v|) / |v|: the parameter of the projection of p on
\* the line through start along v
ParamOn(p, start, v) ==
    Frac(Dot3(Sub3(p.n, Scale3(start, p.d)), v), p.d * NormSq(v))

\* a parameter limited to the segment: 0 below it, 1 beyond it
Clamp01(t) == IF t.n < 0 THEN Frac(0, 1) ELSE IF t.n > t.d THEN Frac(1, 1) ELSE t

\* mutant: no segment is taken for a zero-length one
ShorterThanEpsilon_Never(p, q) == FALSE

\* length < SP_EPSILON_FLOAT: between points with integer coordinates, the
\* length is 0
ShorterThanEpsilon(p, q) == p = q

\* (n1.cross(n2)).norm() < SP_EPSILON_FLOAT, and n1.distance(n2) or
\* n1.distance(-n2) < SP_EPSILON_FLOAT: between directions of lines through
\* points with small integer coordinates, the directions are parallel (a
\* zero vector normalises to NaN, and no comparison with NaN is true)
ParallelWithinEpsilon(v1, v2) ==
    v1 # Zero3 /\ v2 # Zero3 /\ Cross3(v1, v2) = Zero3

\* struct ClosestPoints (branch: history, the branch that produced it)
ClosestPoints(dist_sq, closest_point1, closest_point2, branch) ==
    [thrown |-> FALSE, dist_sq |-> dist_sq, closest_point1 |-> closest_point1,
     closest_point2 |-> closest_point2, branch |-> branch]

\* closestPointsBetweenPointAndLine, for a unit line_direction
closestPointsBetweenPointAndLine(point, line_point, line_direction) ==
    LET a == Sub3(line_point, point)
        c == Sub3(a, Scale3(line_direction, Dot3(a, line_direction)))
    IN  ClosestPoints(Frac(NormSq(c), 1), Exact(point), Exact(Add3(point, c)),
                      "line")

\* the values a point3d that is declared and never assigned may hold
UnassignedPoints == CubePoints

\* delta_to_start.dot(ray_direction) < 0
RayPointBehindStart(point, ray_start, ray_direction) ==
    Dot3(Sub3(point, ray_start), ray_direction) < 0

\* closestPointsBetweenPointAndRay, for a unit ray_direction: the results
\* the call may return.  Behind the ray start, closest_point2 is assigned
\* from ray_closest_point, which is declared and never assigned.
closestPointsBetweenPointAndRay(point, ray_start, ray_direction) ==
    IF RayPointBehindStart(point, ray_start, ray_direction)
    THEN {ClosestPoints(Frac(NormSq(Sub3(point, ray_start)), 1), Exact(point),
                        Exact(ray_closest_point), "behind") :
             ray_closest_point \in UnassignedPoints}
    ELSE {closestPointsBetweenPointAndLine(point, ray_start, ray_direction)}

\* closestPointsBetweenPointAndLineSegment
closestPointsBetweenPointAndLineSegment(point, line) ==
    LET a == Sub3(line.start_point, point)
        b == Sub3(line.end_point, point)
        v == Sub3(b, a)
        len_sq == NormSq(v)
        \* c = a - n_line * a.dot(n_line), over the denominator |b - a|^2
        c == RPoint(Sub3(Scale3(a, len_sq), Scale3(v, Dot3(a, v))), len_sq)
        end_sq == IF NormSq(a) > NormSq(b) THEN NormSq(b) ELSE NormSq(a)
        end_rel == IF NormSq(a) > NormSq(b) THEN b ELSE a
        between == Dot3(Sub3(c.n, Scale3(a, c.d)), Sub3(c.n, Scale3(b, c.d))) < 0
        nearer == FracLess(RNormSq(c), Frac(end_sq, 1))
    IN  IF a = b
        THEN ClosestPoints(Frac(NormSq(a), 1), Exact(point),
                           Exact(Add3(a, point)), "point")
        ELSE IF between /\ nearer
        THEN ClosestPoints(RNormSq(c), Exact(point),
                           RPoint(Add3(c.n, Scale3(point, c.d)), c.d),
                           "foot")
        ELSE ClosestPoints(Frac(end_sq, 1), Exact(point),
                           Exact(Add3(end_rel, point)), "end")

\* closestPointsBetweenLinePaths: alpha is the ratio of the lengths of
\* closest_point2 - start and of the relative path, two vectors along the
\* same direction
closestPointsBetweenLinePaths(line1, line2) ==
    LET rel_path == Line(Sub3(line2.start_point, line1.start_point),
                         Sub3(line2.end_point, line1.end_point))
        rel == closestPointsBetweenPointAndLineSegment(Zero3, rel_path)
        v == Sub3(rel_path.end_point, rel_path.start_point)
        alpha == IF NormSq(v) > 0
                 THEN ParamOn(rel.closest_point2, rel_path.start_point, v)
                 ELSE Frac(0, 1)
    IN  ClosestPoints(rel.dist_sq,
                      PointAt(line1.start_point,
                              Sub3(line1.end_point, line1.start_point), alpha),
                      PointAt(line2.start_point,
                              Sub3(line2.end_point, line2.start_point), alpha),
                      rel.branch)

\* std::invalid_argument thrown instead of a result
Thrown == [thrown |-> TRUE]

\* closestPointsBetweenLines: alphas = A.inverse() * b is the solution of
\* line1.start + alpha1 n1 + alpha3 n3 = line2.start + alpha2 n2
closestPointsBetweenLines(line1, line2) ==
    LET v1 == Sub3(line1.end_point, line1.start_point)
        v2 == Sub3(line2.end_point, line2.start_point)
        delta == Sub3(line2.start_point, line1.start_point)
        n3 == Cross3(v2, v1)
        det == NormSq(v1) * NormSq(v2) - Dot3(v1, v2) * Dot3(v1, v2)
        alpha1 == Frac(Dot3(delta, v1) * NormSq(v2)
                          - Dot3(v1, v2) * Dot3(delta, v2), det)
        alpha2 == Frac(Dot3(v1, v2) * Dot3(delta, v1)
                          - NormSq(v1) * Dot3(delta, v2), det)
        \* delta - n1 * delta.dot(n1), over the denominator |v1|^2
        across == RPoint(Sub3(Scale3(delta, NormSq(v1)),
                              Scale3(v1, Dot3(delta, v1))), NormSq(v1))
    IN  IF line1.start_point = line1.end_point
           \/ line2.start_point = line2.end_point
        THEN Thrown
        ELSE IF ParallelWithinEpsilon(v1, v2)
        THEN [thrown |-> FALSE,
              points |->
                 ClosestPoints(RNormSq(across), Exact(line1.start_point),
                               RPoint(Add3(Scale3(line1.start_point, across.d),
                                           across.n), across.d),
                               "parallel lines")]
        ELSE [thrown |-> FALSE,
              points |->
                 ClosestPoints(Frac(Dot3(delta, n3) * Dot3(delta, n3), NormSq(n3)),
                               PointAt(line1.start_point, v1, alpha1),
                               PointAt(line2.start_point, v2, alpha2),
                               "skew lines")]

\* the ClosestPoints between two given points
BetweenPoints(closest_point1, closest_point2, branch) ==
    ClosestPoints(RDistanceSq(closest_point1, closest_point2), closest_point1,
                  closest_point2, branch)

\* mutant: the parallel branch measures line2 from its start in both
\* orientations
ParallelSegments_NoOrientation(line1, line2) ==
    LET v1 == Sub3(line1.end_point, line1.start_point)
        bound_min == Dot3(Sub3(line2.start_point, line1.start_point), v1)
        bound_max == Dot3(Sub3(line2.end_point, line1.start_point), v1)
        d == Sub3(line2.start_point, line1.start_point)
        delta == RPoint(Sub3(Scale3(d, NormSq(v1)), Scale3(v1, Dot3(d, v1))),
                        NormSq(v1))
    IN  IF NormSq(v1) < bound_min
        THEN BetweenPoints(Exact(line1.end_point), Exact(line2.start_point),
                           "parallel beyond")
        ELSE IF bound_max < 0
        THEN BetweenPoints(Exact(line1.start_point), Exact(line2.end_point),
                           "parallel before")
        ELSE IF bound_min < 0
        THEN BetweenPoints(Exact(line1.start_point),
                           RPoint(Add3(Scale3(line1.start_point, delta.d), delta.n),
                                  delta.d),
                           "parallel across start")
        ELSE BetweenPoints(RPoint(Sub3(Scale3(line2.start_point, delta.d), delta.n),
                                  delta.d),
                           Exact(line2.start_point), "parallel inside")

\* the parallel branch of closestPointsBetweenLineSegments; the bounds are
\* carried times |v1|
ParallelSegments(line1, line2) ==
    LET v1 == Sub3(line1.end_point, line1.start_point)
        to_start == Dot3(Sub3(line2.start_point, line1.start_point), v1)
        to_end == Dot3(Sub3(line2.end_point, line1.start_point), v1)
        swapped == to_end < to_start
        bound_min == IF swapped THEN to_end ELSE to_start
        bound_max == IF swapped THEN to_start ELSE to_end
        p2_min == IF swapped THEN line2.end_point ELSE line2.start_point
        p2_max == IF swapped THEN line2.start_point ELSE line2.end_point
        d == Sub3(line2.start_point, line1.start_point)
        \* delta = d - n1 * d.dot(n1), over the denominator |v1|^2
        delta == RPoint(Sub3(Scale3(d, NormSq(v1)), Scale3(v1, Dot3(d, v1))),
                        NormSq(v1))
    IN  IF NormSq(v1) < bound_min
        THEN BetweenPoints(Exact(line1.end_point), Exact(p2_min), "parallel beyond")
        ELSE IF bound_max < 0
        THEN BetweenPoints(Exact(line1.start_point), Exact(p2_max),
                           "parallel before")
        ELSE IF bound_min < 0
        THEN BetweenPoints(Exact(line1.start_point),
                           RPoint(Add3(Scale3(line1.start_point, delta.d), delta.n),
                                  delta.d),
                           "parallel across start")
        ELSE BetweenPoints(RPoint(Sub3(Scale3(p2_min, delta.d), delta.n), delta.d),
                           Exact(p2_min), "parallel inside")

\* the skew branch of closestPointsBetweenLineSegments
SkewSegments(line1, line2) ==
    LET v1 == Sub3(line1.end_point, line1.start_point)
        v2 == Sub3(line2.end_point, line2.start_point)
        lines == closestPointsBetweenLines(line1, line2).points
        alpha1 == ParamOn(lines.closest_point1, line1.start_point, v1)
        alpha2 == ParamOn(lines.closest_point2, line2.start_point, v2)
        out1 == alpha1.n < 0 \/ alpha1.n > alpha1.d
        out2 == alpha2.n < 0 \/ alpha2.n > alpha2.d
        \* the alpha check
        p1 == PointAt(line1.start_point, v1, Clamp01(alpha1))
        p2 == PointAt(line2.start_point, v2, Clamp01(alpha2))
        \* closest_point2 again, from the limited closest_point1
        q2 == IF out1
              THEN PointAt(line2.start_point, v2,
                           Clamp01(ParamOn(p1, line2.start_point, v2)))
              ELSE p2
        \* closest_point1 again, from closest_point2
        q1 == IF out2
              THEN PointAt(line1.start_point, v1,
                           Clamp01(ParamOn(q2, line1.start_point, v1)))
              ELSE p1
    IN  BetweenPoints(q1, q2,
                      IF out1 /\ out2 THEN "skew, both limited"
                      ELSE IF out1 \/ out2 THEN "skew, one limited"
                      ELSE "skew")

\* mutant: the witnesses stay in the order of the point-segment routine
SwapWitnesses_Kept(points) == points

\* std::swap(closest_points.closest_point1, closest_points.closest_point2)
SwapWitnesses(points) ==
    ClosestPoints(points.dist_sq, points.closest_point2, points.closest_point1,
                  points.branch)

\* closestPointsBetweenLineSegments
closestPointsBetweenLineSegments(line1, line2) ==
    IF ShorterThanEpsilon(line1.start_point, line1.end_point)
    THEN closestPointsBetweenPointAndLineSegment(line1.start_point, line2)
    ELSE IF ShorterThanEpsilon(line2.start_point, line2.end_point)
    THEN SwapWitnesses(
             closestPointsBetweenPointAndLineSegment(line2.start_point, line1))
    ELSE IF ParallelWithinEpsilon(Sub3(line1.end_point, line1.start_point),
                                  Sub3(line2.end_point, line2.start_point))
    THEN ParallelSegments(line1, line2)
    \* an exception of closestPointsBetweenLines leaves the function
    ELSE IF closestPointsBetweenLines(line1, line2).thrown
    THEN Thrown
    ELSE SkewSegments(line1, line2)

\* lineDirection: the direction, or the exception
lineDirection(line) ==
    IF line.start_point = line.end_point
    THEN Thrown
    ELSE [thrown |-> FALSE,
          direction |-> Sub3(line.end_point, line.start_point)]

\* closest_points.dist <= collision_radius
WithinCollisionRadius(dist_sq, collision_radius) ==
    FracLeq(dist_sq, Frac(collision_radius * collision_radius, 1))

\* mutant: closest at the end of the horizon, the two distances in the
\* sphere are added as they are inside it
CollisionTimeAtEnd_Added(a, b, collision_radius, time_horizon) ==
    LET v == Sub3(b, a)
        c == RPoint(Sub3(Scale3(a, NormSq(v)), Scale3(v, Dot3(a, v))), NormSq(v))
        in_sphere1_sq == FracSub(Frac(collision_radius * collision_radius, 1),
                                 RNormSq(c))
        in_sphere2_sq == FracSub(Frac(NormSq(b), 1), RNormSq(c))
    IN  SurdTimes(Surd(Frac(1, 1), FracMul(in_sphere1_sq, Frac(1, NormSq(v))),
                       1, FracMul(in_sphere2_sq, Frac(1, NormSq(v)))),
                  time_horizon)

\* collision_time where delta == b:
\* (1 - (dist_in_sphere1 - dist_in_sphere2) / (b - a).norm()) * time_horizon
CollisionTimeAtEnd(a, b, collision_radius, time_horizon) ==
    LET v == Sub3(b, a)
        \* c = a - n_line * a.dot(n_line), over the denominator |b - a|^2
        c == RPoint(Sub3(Scale3(a, NormSq(v)), Scale3(v, Dot3(a, v))), NormSq(v))
        in_sphere1_sq == FracSub(Frac(collision_radius * collision_radius, 1),
                                 RNormSq(c))
        in_sphere2_sq == FracSub(Frac(NormSq(b), 1), RNormSq(c))
    IN  SurdTimes(Surd(Frac(1, 1), FracMul(in_sphere1_sq, Frac(1, NormSq(v))),
                       -1, FracMul(in_sphere2_sq, Frac(1, NormSq(v)))),
                  time_horizon)

\* collision_time otherwise:
\* (1 - (dist_in_sphere1 + dist_in_sphere2) / (b - a).norm()) * time_horizon
CollisionTimeInside(a, b, dist_sq, collision_radius, time_horizon) ==
    LET v == Sub3(b, a)
        in_sphere1_sq == FracSub(Frac(collision_radius * collision_radius, 1),
                                 dist_sq)
        in_sphere2_sq == FracSub(Frac(NormSq(b), 1), dist_sq)
    IN  SurdTimes(Surd(Frac(1, 1), FracMul(in_sphere1_sq, Frac(1, NormSq(v))),
                       1, FracMul(in_sphere2_sq, Frac(1, NormSq(v)))),
                  time_horizon)

\* computeCollisionTime: whether the result is SP_INFINITY, and otherwise
\* collision_time and the branch that computed it (at the start, closest at
\* the end of the horizon, closest inside it)
computeCollisionTime(obs_path, agent_path, collision_radius, time_horizon) ==
    LET closest_points == closestPointsBetweenLinePaths(obs_path, agent_path)
        a == Sub3(agent_path.start_point, obs_path.start_point)
        b == Sub3(agent_path.end_point, obs_path.end_point)
        delta == RSub(closest_points.closest_point2, closest_points.closest_point1)
    IN  IF ~WithinCollisionRadius(closest_points.dist_sq, collision_radius)
        THEN [infinite |-> TRUE, branch |-> "none", collision_time |-> ZeroSurd]
        ELSE IF NormSq(a) <= collision_radius * collision_radius
        THEN [infinite |-> FALSE, branch |-> "start",
              collision_time |-> ZeroSurd]
        ELSE IF RPointEq(delta, Exact(b))
        THEN [infinite |-> FALSE, branch |-> "end",
              collision_time |->
                 CollisionTimeAtEnd(a, b, collision_radius, time_horizon)]
        ELSE [infinite |-> FALSE, branch |-> "inside",
              collision_time |->
                 CollisionTimeInside(a, b, closest_points.dist_sq,
                                     collision_radius, time_horizon)]

(***************************************************************************)
(* Calls of the geometry kernel                                            *)
(***************************************************************************)
NoResult == [returned |-> FALSE]

RayCalls ==
    {[call |-> "closestPointsBetweenPointAndRay", point |-> p, ray_start |-> s,
      ray_direction |-> d, out |-> NoResult] :
        p \in CubePoints, s \in CubePoints, d \in UnitDirections}

SegmentCalls ==
    {[call |-> "closestPointsBetweenLineSegments", line1 |-> l1, line2 |-> l2,
      out |-> NoResult] : l1 \in GeoLines, l2 \in GeoLines}

CollisionTimeCalls ==
    {[call |-> "computeCollisionTime", obs_path |-> l1, agent_path |-> l2,
      collision_radius |-> r, time_horizon |-> 1, out |-> NoResult] :
        l1 \in CubeLines, l2 \in CubeLines, r \in 1..MaxRadius}

\* an obstacle that starts at the origin, and an agent anywhere near it
ApproachCalls ==
    {[call |-> "computeCollisionTime", obs_path |-> Line(Zero3, q),
      agent_path |-> l2, collision_radius |-> r, time_horizon |-> t,
      out |-> NoResult] :
        q \in CubePoints, l2 \in GeoLines, r \in 1..MaxRadius,
        t \in 1..MaxHorizon}

LinesCalls ==
    {[call |-> "closestPointsBetweenLines", line1 |-> l1, line2 |-> l2,
      out |-> NoResult] : l1 \in CubeLines, l2 \in CubeLines}

LineDirectionCalls ==
    {[call |-> "lineDirection", line |-> l, out |-> NoResult] : l \in GeoLines}

\* a call that returned a value or left with an exception
Returned(out) == [returned |-> TRUE, value |-> out]

\* the manager is left alone while the kernel computes
ManagerUntouched ==
    UNCHANGED <<param, mission, agent, planner_state, has_current_state,
                has_obstacles, has_local_map, is_disturbed, collision_alert,
                desired_traj, planner_obstacles, last_call, last_update,
                obstacle_since, state_since, last_planned, last_delivered>>

callPointAndRay ==
    /\ geo.call = "closestPointsBetweenPointAndRay"
    /\ ~geo.out.returned
    /\ \E out \in closestPointsBetweenPointAndRay(geo.point, geo.ray_start,
                                                  geo.ray_direction) :
           geo' = [geo EXCEPT !.out = Returned(out)]
    /\ ManagerUntouched

callLineSegments ==
    /\ geo.call = "closestPointsBetweenLineSegments"
    /\ ~geo.out.returned
    /\ geo' = [geo EXCEPT !.out =
                  Returned(closestPointsBetweenLineSegments(geo.line1, geo.line2))]
    /\ ManagerUntouched

callCollisionTime ==
    /\ geo.call = "computeCollisionTime"
    /\ ~geo.out.returned
    /\ geo' = [geo EXCEPT !.out =
                  Returned(computeCollisionTime(geo.obs_path, geo.agent_path,
                                                geo.collision_radius,
                                                geo.time_horizon))]
    /\ ManagerUntouched

callLines ==
    /\ geo.call = "closestPointsBetweenLines"
    /\ ~geo.out.returned
    /\ geo' = [geo EXCEPT !.out =
                  Returned(closestPointsBetweenLines(geo.line1, geo.line2))]
    /\ ManagerUntouched

callLineDirection ==
    /\ geo.call = "lineDirection"
    /\ ~geo.out.returned
    /\ geo' = [geo EXCEPT !.out = Returned(lineDirection(geo.line))]
    /\ ManagerUntouched

(***************************************************************************)
(* SpecGeometry: one call of the geometry kernel, on any arguments of the  *)
(* grid, beside a manager that was just constructed.                       *)
(***************************************************************************)
InitGeometry ==
    /\ Constructed
    /\ param = [multisim_experiment |-> FALSE, world_dimension |-> 3,
                world_z_2d |-> 0, goal_threshold |-> 1, reset_threshold |-> 1,
                goal_mode |-> "PRIORBASED"]
    /\ \/ geo \in RayCalls
       \/ geo \in SegmentCalls
       \/ geo \in CollisionTimeCalls
       \/ geo \in LinesCalls
       \/ geo \in LineDirectionCalls

NextGeometry ==
    \/ callPointAndRay
    \/ callLineSegments
    \/ callCollisionTime
    \/ callLines
    \/ callLineDirection

SpecGeometry == InitGeometry /\ [][NextGeometry]_vars

(***************************************************************************)
(* SpecCollision: one call of computeCollisionTime, for an agent that      *)
(* passes an obstacle at any distance, radius and horizon of the grid.     *)
(***************************************************************************)
InitCollision ==
    /\ Constructed
    /\ param = [multisim_experiment |-> FALSE, world_dimension |-> 3,
                world_z_2d |-> 0, goal_threshold |-> 1, reset_threshold |-> 1,
                goal_mode |-> "PRIORBASED"]
    /\ geo \in ApproachCalls

NextCollision == callCollisionTime

SpecCollision == InitCollision /\ [][NextCollision]_vars

(***************************************************************************)
(* Properties                                                              *)
(***************************************************************************)
\* the step is a call of plan / a call of plan that passed the input check
PlanStep == last_call'.op = "plan"

PlanProceeds == PlanStep /\ last_call'.ret = "SUCCESS"

PlannerCalled == last_call'.planner_in.called

\* C1 (as claimed): in every configuration, a plan call made while
\* planner_state = LAND neither invokes the trajectory planner nor replaces
\* desired_traj.
C1_NoPlanningInLandAnyConfig ==
    [][(PlanStep /\ planner_state = "LAND")
         => (~PlannerCalled /\ desired_traj' = desired_traj)]_vars

\* C1 (amended): with multisim_experiment enabled, a plan call made while
\* planner_state = LAND neither invokes the trajectory planner nor replaces
\* desired_traj.
C1_NoPlanningInLandMultisim ==
    [][(PlanStep /\ planner_state = "LAND" /\ param.multisim_experiment)
         => (~PlannerCalled /\ desired_traj' = desired_traj)]_vars

\* a plan call in LAND passed the input check, and the trajectory planned
\* before it is still the desired one
C1_Witness ==
    /\ last_call.op = "plan"
    /\ last_call.ret = "SUCCESS"
    /\ ~last_call.planner_in.called
    /\ planner_state = "LAND"
    /\ param.multisim_experiment
    /\ ~desired_traj.empty

\* C2: with the executor coupled and planner_state = LAND, setPlannerState(s)
\* leaves planner_state = LAND while landingFinished() replies false, and
\* sets planner_state = s once it replies true.
C2_SetPlannerStateWhileLanding ==
    [][(/\ last_call'.op = "setPlannerState"
        /\ param.multisim_experiment
        /\ planner_state = "LAND")
         => /\ last_call'.landing \in {"in progress", "finished"}
            /\ last_call'.landing = "in progress" => planner_state' = "LAND"
            /\ last_call'.landing = "finished"
                  => planner_state' = last_call'.arg]_vars

\* a command for another state was ignored because landing is in progress
C2_Witness ==
    /\ last_call.op = "setPlannerState"
    /\ last_call.landing = "in progress"
    /\ last_call.arg = "GOTO"
    /\ planner_state = "LAND"

\* C3: plan returns WAITFORROSMSG exactly when there has not been both an
\* obstacleCallback and a state update since construction or since the last
\* plan call that returned SUCCESS; otherwise it returns SUCCESS.
C3_WaitExactlyWhenInputIncomplete ==
    [][PlanStep
         => /\ last_call'.ret = "WAITFORROSMSG"
                  <=> ~(obstacle_since /\ state_since)
            /\ last_call'.ret = "SUCCESS" <=> (obstacle_since /\ state_since)]_vars

\* after an earlier SUCCESS a new obstacle message arrived but no state
\* update, and plan returned WAITFORROSMSG
C3_Witness ==
    /\ last_call.op = "plan"
    /\ last_call.ret = "WAITFORROSMSG"
    /\ obstacle_since
    /\ ~state_since
    /\ ~desired_traj.empty

\* obstacle data were delivered and consumed by a successful plan call, and
\* since then a state update arrived but no obstacle message
MissedObstacleMessage ==
    /\ planner_obstacles # NoObstacles
    /\ ~obstacle_since
    /\ state_since

\* C4 (as claimed): when a state update but no new obstacle message arrived
\* since the plan call that consumed the last one, the next plan call still
\* replans with the obstacle data delivered earlier (or, in LAND, hands off).
C4_MissedObstaclesStillReplans ==
    [][(PlanStep /\ MissedObstacleMessage)
         => /\ last_call'.ret = "SUCCESS"
            /\ PlannerCalled \/ last_call'.landed]_vars

\* C4 (amended): in that situation the plan call returns WAITFORROSMSG without
\* replanning; the planner keeps the obstacle data delivered earlier and the
\* state update stays pending.
C4_MissedObstaclesSkipTick ==
    [][(PlanStep /\ MissedObstacleMessage)
         => /\ last_call'.ret = "WAITFORROSMSG"
            /\ ~PlannerCalled
            /\ ~last_call'.landed
            /\ desired_traj' = desired_traj
            /\ planner_obstacles' = planner_obstacles
            /\ has_current_state'
            /\ ~has_obstacles']_vars

\* a tick was skipped for want of a new obstacle message
C4_Witness ==
    /\ last_call.op = "plan"
    /\ last_call.ret = "WAITFORROSMSG"
    /\ planner_obstacles # NoObstacles
    /\ ~obstacle_since
    /\ state_since
    /\ has_current_state

\* C9: with multisim_experiment enabled and both inputs present, a plan call
\* in LAND calls the landing callback and returns SUCCESS; it clears
\* has_obstacles and has_current_state and changes nothing else.
C9_LandHandOffFrame ==
    [][(/\ PlanStep
        /\ param.multisim_experiment
        /\ planner_state = "LAND"
        /\ has_obstacles
        /\ has_current_state)
         => /\ last_call'.landed
            /\ last_call'.ret = "SUCCESS"
            /\ ~PlannerCalled
            /\ desired_traj' = desired_traj
            /\ agent'.current_goal_point = agent.current_goal_point
            /\ agent'.desired_goal_point = agent.desired_goal_point
            /\ agent'.start_point = agent.start_point
            /\ agent' = agent
            /\ collision_alert' = collision_alert
            /\ planner_state' = planner_state
            /\ ~has_obstacles'
            /\ ~has_current_state'
            /\ UNCHANGED <<param, mission, has_local_map, is_disturbed,
                           planner_obstacles>>]_vars

\* the hand-off happened with an alert raised by an earlier planning
C9_Witness ==
    /\ last_call.op = "plan"
    /\ last_call.landed
    /\ collision_alert
    /\ ~has_obstacles
    /\ ~has_current_state

\* the step is a doStep that took the disturbance override
DisturbedStep == last_call'.op = "doStep" /\ last_update' = "disturbed"

\* the plan call proceeds from a state set by the disturbance override
PlanAfterDisturbance == PlanProceeds /\ last_update = "disturbed"

\* the planner is called with is_disturbed = true on the agent's current
\* state, whose velocity and acceleration are zero
PlansFromDisturbedState ==
    /\ PlannerCalled
    /\ last_call'.planner_in.is_disturbed
    /\ last_call'.planner_in.state = agent.current_state
    /\ agent.current_state.velocity = Zero3
    /\ agent.current_state.acceleration = Zero3

\* C5 (as claimed): a disturbed doStep sets the position to the observed
\* position and velocity and acceleration to zero, and the next plan call that
\* proceeds plans from that state with is_disturbed = true.
C5_DisturbedOverrideAsClaimed ==
    [][/\ DisturbedStep
            => /\ agent'.current_state.position = last_call'.observed
               /\ agent'.current_state.velocity = Zero3
               /\ agent'.current_state.acceleration = Zero3
               /\ is_disturbed'
       /\ PlanAfterDisturbance => PlansFromDisturbedState]_vars

\* C5 (amended): the position is the observed position with z replaced by
\* world_z_2d in 2D mode, and the next plan call that proceeds plans from that
\* state with is_disturbed = true unless planner_state = LAND, where it hands
\* off to the executor without planning.
C5_DisturbedOverride ==
    [][/\ DisturbedStep
            => /\ agent'.current_state.position =
                     IF param.world_dimension = 2
                     THEN <<last_call'.observed[1], last_call'.observed[2],
                            param.world_z_2d>>
                     ELSE last_call'.observed
               /\ agent'.current_state.velocity = Zero3
               /\ agent'.current_state.acceleration = Zero3
               /\ is_disturbed'
       /\ PlanAfterDisturbance
            => IF planner_state = "LAND"
               THEN ~PlannerCalled /\ last_call'.landed
               ELSE PlansFromDisturbedState]_vars

\* the planner was called with is_disturbed = true on a state taken over
\* from the executor while the agent was moving along a trajectory
C5_Witness ==
    /\ last_call.op = "plan"
    /\ last_call.planner_in.called
    /\ last_call.planner_in.is_disturbed
    /\ last_update = "disturbed"
    /\ agent.current_state.velocity = Zero3
    /\ agent.current_state.position # agent.current_goal_point

\* C6: after a plan call that proceeds in GOTO, the agent's desired goal is
\* the mission's desired goal.
C6_GotoGoalIsMissionGoal ==
    (last_call.op = "plan" /\ last_call.ret = "SUCCESS" /\ planner_state = "GOTO")
        => agent.desired_goal_point = mission.desired_goal_point

\* a plan call proceeded in GOTO after a PATROL swap had exchanged the
\* agent's start and goal
C6_Witness ==
    /\ last_call.op = "plan"
    /\ last_call.ret = "SUCCESS"
    /\ planner_state = "GOTO"
    /\ agent.start_point = mission.desired_goal_point
    /\ mission.start_point # mission.desired_goal_point

\* C7: a plan call that proceeds in PATROL swaps start_point and
\* desired_goal_point exactly when the distance from the current position to
\* the desired goal is < goal_threshold; otherwise both are unchanged.
C7_PatrolSwap ==
    [][(PlanProceeds /\ planner_state = "PATROL")
         => IF DistanceSq(agent.current_state.position, agent.desired_goal_point)
                 < param.goal_threshold * param.goal_threshold
            THEN /\ agent'.desired_goal_point = agent.start_point
                 /\ agent'.start_point = agent.desired_goal_point
            ELSE /\ agent'.desired_goal_point = agent.desired_goal_point
                 /\ agent'.start_point = agent.start_point]_vars

\* a PATROL plan call at the goal has swapped the two points
C7_Witness ==
    /\ last_call.op = "plan"
    /\ last_call.ret = "SUCCESS"
    /\ planner_state = "PATROL"
    /\ agent.start_point = agent.current_state.position
    /\ agent.desired_goal_point # agent.start_point
    /\ agent.desired_goal_point = mission.start_point
    /\ agent.start_point = mission.desired_goal_point

\* C8: after a plan call that proceeds in GOBACK, the agent's desired goal is
\* the mission's start point.
C8_GobackGoalIsMissionStart ==
    (last_call.op = "plan" /\ last_call.ret = "SUCCESS" /\ planner_state = "GOBACK")
        => agent.desired_goal_point = mission.start_point

\* a plan call proceeded in GOBACK after a PATROL swap had moved the agent's
\* start_point away from the mission's
C8_Witness ==
    /\ last_call.op = "plan"
    /\ last_call.ret = "SUCCESS"
    /\ planner_state = "GOBACK"
    /\ agent.start_point # mission.start_point

\* C10: in 2D mode, whenever has_current_state is true the z component of the
\* current position is world_z_2d.
C10_PlaneHeightIn2D ==
    (param.world_dimension = 2 /\ has_current_state)
        => agent.current_state.position[3] = param.world_z_2d

\* a disturbed doStep observed the agent off the plane
C10_Witness ==
    /\ param.world_dimension = 2
    /\ has_current_state
    /\ last_call.op = "doStep"
    /\ last_update = "disturbed"
    /\ last_call.observed[3] # param.world_z_2d

\* C11: getAgentMsg returns a message of type AGENT with the agent's id, the
\* current position and velocity, the alert of the most recent planning, the
\* trajectory of the most recent plan call that planned (none before the
\* first), and as goal the desired goal point, or the current goal point when
\* goal_mode = GRIDBASEDPLANNER.
C11_AgentMsg ==
    last_call.op = "getAgentMsg"
        => /\ last_call.msg.type = "AGENT"
           /\ last_call.msg.id = AgentId
           /\ last_call.msg.position = agent.current_state.position
           /\ last_call.msg.velocity = agent.current_state.velocity
           /\ last_call.msg.collision_alert = last_planned.collision_alert
           /\ last_call.msg.prev_traj =
                 IF last_planned.planned
                 THEN [present |-> TRUE, agent_id |-> AgentId,
                       start |-> last_planned.traj.start,
                       goal |-> last_planned.traj.goal]
                 ELSE NoTrajMsg
           /\ last_call.msg.goal =
                 IF param.goal_mode = "GRIDBASEDPLANNER"
                 THEN agent.current_goal_point
                 ELSE agent.desired_goal_point

\* the message was built in GRIDBASEDPLANNER mode after a planning that
\* raised the alert and headed for a goal other than the desired one
C11_Witness ==
    /\ last_call.op = "getAgentMsg"
    /\ param.goal_mode = "GRIDBASEDPLANNER"
    /\ last_call.msg.collision_alert
    /\ last_call.msg.prev_traj.present
    /\ last_call.msg.goal # agent.desired_goal_point

\* C16: a plan call that returns WAITFORROSMSG calls neither the trajectory
\* planner nor the command executor and changes none of the input flags, the
\* agent, the goals, desired_traj, collision_alert and planner_state; with
\* both inputs present a plan call returns SUCCESS.
C16_WaitLeavesStateUnchanged ==
    [][/\ (PlanStep /\ last_call'.ret = "WAITFORROSMSG")
            => /\ ~PlannerCalled
               /\ ~last_call'.landed
               /\ UNCHANGED <<has_obstacles, has_current_state, agent, mission,
                              desired_traj, collision_alert, planner_state,
                              planner_obstacles, is_disturbed, param>>
       /\ (PlanStep /\ has_obstacles /\ has_current_state)
            => last_call'.ret = "SUCCESS"]_vars

\* plan had to wait for the current state and kept the obstacles that had
\* arrived
C16_Witness ==
    /\ last_call.op = "plan"
    /\ last_call.ret = "WAITFORROSMSG"
    /\ has_obstacles
    /\ ~has_current_state
    /\ planner_obstacles # NoObstacles

\* C17: the trajectory planner is called with the array delivered by the
\* last obstacleCallback completed before the plan call; every
\* obstacleCallback replaces the array held and sets has_obstacles, and no
\* other operation touches the array.
C17_PlansAgainstLatestArray ==
    [][/\ PlannerCalled
            => /\ last_call'.planner_in.obstacles.type = last_delivered.msg.type
               /\ last_call'.planner_in.obstacles = planner_obstacles
       /\ last_call'.op = "obstacleCallback"
            => /\ has_obstacles'
               /\ planner_obstacles'.type = last_delivered'.msg.type
       /\ last_call'.op # "obstacleCallback"
            => /\ planner_obstacles' = planner_obstacles
               /\ last_delivered'.msg = last_delivered.msg]_vars

\* the planner was called with a dynamic-obstacle array, the last of several
\* that had arrived since the plan call before
C17_Witness ==
    /\ last_call.op = "plan"
    /\ last_call.planner_in.called
    /\ last_call.planner_in.obstacles.type = "DYNAMICOBSTACLE"
    /\ last_call.planner_in.pending = 2

\* C18: planner_state is WAIT after construction; no operation other than
\* setPlannerState changes it, and setPlannerState(s) sets it to s unless
\* landing is in progress.
C18_OnlyCommandsChangePlannerState ==
    [][/\ last_call.op = "AgentManager" => planner_state = "WAIT"
       /\ last_call'.op # "setPlannerState" => planner_state' = planner_state
       /\ (last_call'.op = "setPlannerState" /\ last_call'.landing # "in progress")
            => planner_state' = last_call'.arg]_vars

\* without the executor, a command took the agent out of LAND
C18_Witness ==
    /\ last_call.op = "setPlannerState"
    /\ last_call.arg = "PATROL"
    /\ planner_state = "PATROL"
    /\ ~param.multisim_experiment
    /\ ~desired_traj.empty

\* C19 (as claimed): while the mission's start and goal differ, the agent's
\* start_point and desired_goal_point are the mission's start and goal in
\* some order.
C19_StartAndGoalAreTheMissionPair ==
    mission.start_point # mission.desired_goal_point
        => {agent.start_point, agent.desired_goal_point}
              = {mission.start_point, mission.desired_goal_point}

\* C20 (as claimed): the planner is told is_disturbed = true only when the
\* current state comes from the disturbance override of doStep; never with
\* multisim_experiment disabled, nor when the most recent state update was
\* setCurrentState or an undisturbed doStep.
C20_DisturbedFlagMatchesState ==
    [][PlannerCalled
         => /\ last_call'.planner_in.is_disturbed => last_update = "disturbed"
            /\ ~param.multisim_experiment => ~last_call'.planner_in.is_disturbed
            /\ last_update \in {"msg", "ideal"}
                  => ~last_call'.planner_in.is_disturbed]_vars

\* C12 (as claimed): closestPointsBetweenPointAndRay returns the point as
\* closest_point1, the point of the ray nearest to it as closest_point2 (the
\* ray start when the point lies behind it) and their distance as dist.
C12_RayWitnessesAndDistance ==
    (geo.call = "closestPointsBetweenPointAndRay" /\ geo.out.returned)
        => LET out == geo.out.value
               along == Dot3(Sub3(geo.point, geo.ray_start), geo.ray_direction)
               nearest == IF along < 0 THEN geo.ray_start
                          ELSE Add3(geo.ray_start, Scale3(geo.ray_direction, along))
           IN  /\ RPointEq(out.closest_point1, Exact(geo.point))
               /\ RPointEq(out.closest_point2, Exact(nearest))
               /\ FracEq(out.dist_sq,
                         RDistanceSq(out.closest_point1, out.closest_point2))

\* C13 (as claimed): for every pair of segments,
\* closestPointsBetweenLineSegments(line2, line1) returns the dist of
\* closestPointsBetweenLineSegments(line1, line2) and its two closest points
\* swapped.
C13_SwappedArgumentsSwapWitnesses ==
    (geo.call = "closestPointsBetweenLineSegments" /\ geo.out.returned)
        => LET out == geo.out.value
               rev == closestPointsBetweenLineSegments(geo.line2, geo.line1)
           IN  /\ FracEq(rev.dist_sq, out.dist_sq)
               /\ RPointEq(rev.closest_point1, out.closest_point2)
               /\ RPointEq(rev.closest_point2, out.closest_point1)

\* the square of the least distance from the position at the start of the
\* horizon to the position at its end, both relative to the obstacle, taken
\* along the straight move between them
MinimumPathDistanceSq(obs_path, agent_path) ==
    LET a == Sub3(agent_path.start_point, obs_path.start_point)
        b == Sub3(agent_path.end_point, obs_path.end_point)
        v == Sub3(b, a)
        t == IF v = Zero3 THEN Frac(0, 1) ELSE Clamp01(Frac(-Dot3(a, v), NormSq(v)))
    IN  RNormSq(PointAt(a, v, t))

\* C14 (as claimed): computeCollisionTime returns SP_INFINITY exactly when
\* the minimum distance between the two points moving along their paths is
\* >= collision_radius.
C14_InfiniteIffMinimumAtLeastRadius ==
    (geo.call = "computeCollisionTime" /\ geo.out.returned)
        => (geo.out.value.infinite
              <=> FracLeq(Frac(geo.collision_radius * geo.collision_radius, 1),
                          MinimumPathDistanceSq(geo.obs_path, geo.agent_path)))

\* whether the point p lies on the segment
OnSegment(p, line) ==
    LET v == Sub3(line.end_point, line.start_point)
        w == Sub3(p.n, Scale3(line.start_point, p.d))
    IN  /\ Cross3(w, v) = Zero3
        /\ 0 <= Dot3(w, v)
        /\ Dot3(w, v) <= p.d * NormSq(v)

\* the square of the distance from the point p to the segment
PointSegmentDistanceSq(p, line) ==
    LET v == Sub3(line.end_point, line.start_point)
        t == IF v = Zero3 THEN Frac(0, 1)
             ELSE Clamp01(ParamOn(p, line.start_point, v))
    IN  RDistanceSq(p, PointAt(line.start_point, v, t))

\* the squares of the distances among which the least is the distance
\* between two segments of positive length: from each end to the other
\* segment, and between the two lines where their common perpendicular
\* meets both segments
SegmentDistanceCandidates(line1, line2) ==
    LET v1 == Sub3(line1.end_point, line1.start_point)
        v2 == Sub3(line2.end_point, line2.start_point)
        d == Sub3(line2.start_point, line1.start_point)
        n == Cross3(v1, v2)
        \* d + v2 t - v1 s is perpendicular to v1 and to v2
        det == NormSq(v1) * NormSq(v2) - Dot3(v1, v2) * Dot3(v1, v2)
        s_n == Dot3(d, v1) * NormSq(v2) - Dot3(d, v2) * Dot3(v1, v2)
        t_n == Dot3(d, v1) * Dot3(v1, v2) - Dot3(d, v2) * NormSq(v1)
    IN  {PointSegmentDistanceSq(Exact(line1.start_point), line2),
         PointSegmentDistanceSq(Exact(line1.end_point), line2),
         PointSegmentDistanceSq(Exact(line2.start_point), line1),
         PointSegmentDistanceSq(Exact(line2.end_point), line1)}
        \cup (IF /\ n # Zero3
                 /\ 0 <= s_n /\ s_n <= det
                 /\ 0 <= t_n /\ t_n <= det
              THEN {Frac(Dot3(d, n) * Dot3(d, n), NormSq(n))}
              ELSE {})

\* C15: for segments of positive length, closestPointsBetweenLineSegments
\* returns closest_point1 on line1, closest_point2 on line2, dist = the
\* distance between them, and dist = the minimum distance between the
\* segments.
C15_SegmentsClosestPoints ==
    (/\ geo.call = "closestPointsBetweenLineSegments"
     /\ geo.out.returned
     /\ geo.line1.start_point # geo.line1.end_point
     /\ geo.line2.start_point # geo.line2.end_point)
        => LET out == geo.out.value
           IN  /\ OnSegment(out.closest_point1, geo.line1)
               /\ OnSegment(out.closest_point2, geo.line2)
               /\ FracEq(out.dist_sq,
                         RDistanceSq(out.closest_point1, out.closest_point2))
               /\ \A c \in SegmentDistanceCandidates(geo.line1, geo.line2) :
                      FracLeq(out.dist_sq, c)

\* skew segments whose nearest points on the two lines both fall outside
\* the segments, at a positive distance
C15_Witness ==
    /\ geo.call = "closestPointsBetweenLineSegments"
    /\ geo.out.returned
    /\ geo.out.value.branch = "skew, both limited"
    /\ geo.out.value.dist_sq.n > 0

\* C21 (as claimed): no public operation goes through the command executor
\* unless multisim_experiment is enabled, the only configuration in which
\* the constructor creates it.
C21_ExecutorUsedOnlyInMultisim ==
    /\ last_call.executor # "untouched" => param.multisim_experiment
    /\ last_call.executor # "absent"

\* C23 (as claimed): isInitialStateValid reports the state invalid exactly
\* when an observed pose is available (multisim_experiment enabled and the
\* agent pose updated) and the drift between the observed and the internal
\* position is > reset_threshold; it modifies no state.
C23_InvalidIffDriftExceedsThreshold ==
    [][last_call'.op = "isInitialStateValid"
         => /\ last_call'.ret = "INVALID"
                 <=> /\ param.multisim_experiment
                     /\ last_call'.pose_updated
                     /\ DistanceSq(last_call'.observed,
                                   agent.current_state.position)
                           > param.reset_threshold * param.reset_threshold
            /\ UNCHANGED <<param, mission, agent, planner_state,
                           has_current_state, has_obstacles, has_local_map,
                           is_disturbed, collision_alert, desired_traj,
                           planner_obstacles>>]_vars

\* the step is a doStep that applies the ideal state of a planned trajectory
IdealStep ==
    /\ last_call'.op = "doStep"
    /\ last_update' = "ideal"
    /\ ~desired_traj.empty

NearestOnSegment(p, line, q) ==
    /\ OnSegment(p, line)
    /\ FracEq(RDistanceSq(p, q), PointSegmentDistanceSq(q, line))

\* C25: when line1 has zero length, closestPointsBetweenLineSegments returns
\* closest_point1 = line1.start_point and closest_point2 = the point of line2
\* nearest to it; when only line2 has zero length, closest_point2 =
\* line2.start_point and closest_point1 = the point of line1 nearest to it;
\* when both have, the two start points; dist is the distance between the
\* returned points.
C25_ZeroLengthSegments ==
    (geo.call = "closestPointsBetweenLineSegments" /\ geo.out.returned)
        => LET out == geo.out.value
               zero1 == geo.line1.start_point = geo.line1.end_point
               zero2 == geo.line2.start_point = geo.line2.end_point
           IN  /\ zero1
                    => /\ RPointEq(out.closest_point1, Exact(geo.line1.start_point))
                       /\ NearestOnSegment(out.closest_point2, geo.line2,
                                           Exact(geo.line1.start_point))
               /\ (zero2 /\ ~zero1)
                    => /\ RPointEq(out.closest_point2, Exact(geo.line2.start_point))
                       /\ NearestOnSegment(out.closest_point1, geo.line1,
                                           Exact(geo.line2.start_point))
               /\ (zero1 /\ zero2)
                    => /\ RPointEq(out.closest_point1, Exact(geo.line1.start_point))
                       /\ RPointEq(out.closest_point2, Exact(geo.line2.start_point))
               /\ (zero1 \/ zero2)
                    => FracEq(out.dist_sq,
                              RDistanceSq(out.closest_point1, out.closest_point2))

\* only line2 has zero length, and the point of line1 nearest to it lies
\* strictly inside line1, away from line2
C25_Witness ==
    /\ geo.call = "closestPointsBetweenLineSegments"
    /\ geo.out.returned
    /\ geo.line1.start_point # geo.line1.end_point
    /\ geo.line2.start_point = geo.line2.end_point
    /\ geo.out.value.branch = "foot"
    /\ geo.out.value.dist_sq.n > 0

\* C26: closestPointsBetweenLines and lineDirection raise invalid_argument
\* exactly when a line has start_point = end_point, and
\* closestPointsBetweenLineSegments returns a result for every pair of
\* segments.
C26_DegenerateErrorStaysInside ==
    geo.out.returned
        => /\ geo.call = "closestPointsBetweenLines"
                => (geo.out.value.thrown
                      <=> \/ geo.line1.start_point = geo.line1.end_point
                          \/ geo.line2.start_point = geo.line2.end_point)
           /\ geo.call = "lineDirection"
                => (geo.out.value.thrown
                      <=> geo.line.start_point = geo.line.end_point)
           /\ geo.call = "closestPointsBetweenLineSegments"
                => ~geo.out.value.thrown

\* closestPointsBetweenLineSegments returned a result for a segment and a
\* zero-length segment, arguments for which closestPointsBetweenLines raises
C26_Witness ==
    /\ geo.call = "closestPointsBetweenLineSegments"
    /\ geo.out.returned
    /\ ~geo.out.value.thrown
    /\ geo.line1.start_point # geo.line1.end_point
    /\ geo.line2.start_point = geo.line2.end_point
    /\ closestPointsBetweenLines(geo.line1, geo.line2).thrown

\* whether 0 <= x <= t for a number x = k - sqrt(u)
SurdWithin(x, t) ==
    /\ x.w.n = 0
    /\ x.k.n >= 0
    /\ FracLeq(x.u, FracMul(x.k, x.k))
    /\ \/ FracLeq(x.k, Frac(t, 1))
       \/ FracLeq(FracMul(FracSub(x.k, Frac(t, 1)), FracSub(x.k, Frac(t, 1))),
                  x.u)

\* the first instant of the horizon at which the two points are at
\* collision_radius from each other, for points that come within it: 0 if
\* they start within it, else time_horizon times the smaller root of
\* |a + (b - a) alpha| = collision_radius
EntryTime(obs_path, agent_path, collision_radius, time_horizon) ==
    LET a == Sub3(agent_path.start_point, obs_path.start_point)
        b == Sub3(agent_path.end_point, obs_path.end_point)
        v == Sub3(b, a)
        mid == Frac(-Dot3(a, v), NormSq(v))
        disc == FracSub(FracMul(mid, mid),
                        Frac(NormSq(a) - collision_radius * collision_radius,
                             NormSq(v)))
    IN  IF NormSq(a) <= collision_radius * collision_radius THEN ZeroSurd
        ELSE SurdValue(SurdTimes(Surd(mid, disc, 1, Frac(0, 1)), time_horizon))

\* C24: when the minimum distance over the horizon is below
\* collision_radius, computeCollisionTime returns the first instant at which
\* the distance between the two points equals collision_radius, an instant
\* of the horizon: 0 when the points start within collision_radius, the
\* first crossing when the closest approach is inside the horizon and when
\* it is at its end.
C24_EntryTime ==
    (/\ geo.call = "computeCollisionTime"
     /\ geo.out.returned
     /\ FracLess(MinimumPathDistanceSq(geo.obs_path, geo.agent_path),
                 Frac(geo.collision_radius * geo.collision_radius, 1)))
        => LET out == geo.out.value
           IN  /\ ~out.infinite
               /\ SurdValue(out.collision_time)
                     = EntryTime(geo.obs_path, geo.agent_path,
                                 geo.collision_radius, geo.time_horizon)
               /\ SurdWithin(SurdValue(out.collision_time), geo.time_horizon)

\* the points are still approaching at the end of the horizon, where they
\* are within collision_radius but not yet at their closest
C24_Witness ==
    /\ geo.call = "computeCollisionTime"
    /\ geo.out.returned
    /\ geo.out.value.branch = "end"
    /\ geo.out.value.collision_time.w.n > 0
    /\ geo.time_horizon > 1
    /\ FracLess(MinimumPathDistanceSq(geo.obs_path, geo.agent_path),
                Frac(geo.collision_radius * geo.collision_radius, 1))
====
